---- MODULE Spec2Model ----
(***************************************************************************)
(* Model of the data plane of the go-hdb client:                           *)
(*   - typeCode.dataType and its registry (internal/protocol/typecode.go), *)
(*   - queryResultSet, the paging cursor over one or more result sets,     *)
(*   - queryResultSetCache (QrsCache), the process-wide id -> cursor map    *)
(*     guarded by a sync.RWMutex,                                          *)
(*   - the rounding of a timestamp to the precision of its column.         *)
(* Four specifications share the variables: SpecTc (type codes),           *)
(* Spec (one cursor and its session), SpecCache (goroutines on QrsCache),  *)
(* SpecTs (timestamps written and read back).                              *)
(***************************************************************************)
EXTENDS Integers, Sequences, FiniteSets, TLC

VARIABLES
    \* ---- type codes
    tcIn,       \* the typeCode handed to dataType
    tcOut,      \* what the last dataType(tcIn) call did
    tcPrev,     \* what the call before it on the same tcIn did
    tcCall,     \* the last other method called for tcIn, and what it returned
    \* ---- timestamps
    tsIn,       \* the time.Time handed to the insert
    tsUnit,     \* the precision of the column, in nanoseconds
    tsOut,      \* the time.Time the select scans back
    \* ---- queryResultSet r and its session r.s
    rrs,        \* r.rrs: the result sets, as references to rowsResult objects
    rr,         \* r.rr: reference to the active rowsResult
    idx,        \* r.idx
    pos,        \* r.pos
    lastErr,    \* r.lastErr ("nil" or an error)
    rrObj,      \* the rowsResult r.rr points to: [rows, lastPacket, closed, rsID]
    isBad,      \* r.s.IsBad()
    srv,        \* the server's side of that result set: pages and rows sent, handle closed
    out,        \* the rows of the active result set Next has copied to dest
    ret,        \* the last call on the cursor and what it returned
    dest,       \* the values Next last left in dest: LOB or not, and their session
    nFetch,     \* fetchNext requests issued for the active result set
    nFail,      \* those of them that failed
    closeReqs,  \* CloseResultsetID requests issued for it (the rsIDs)
    past,       \* what the cursor has been through: "Close" once Close was called,
                \* "errCleared" once an advance has cleared a recorded error
    \* ---- QrsCache and the goroutines using it
    cache,      \* c.cache
    writer,     \* c.mu: the goroutine holding the write lock, or None
    readers,    \* c.mu: the goroutines holding a read lock
    pc,         \* where each goroutine is
    arg,        \* the arguments of the call a goroutine is in
    res,        \* qrs, ok of the Get a goroutine is about to return from
    todo,       \* cleanup's range loop: keys not yet visited
    snap,       \* the session's entries when its cleanup took the lock
    evicted,    \* sessions whose cleanup has deleted an entry
    sessClosed  \* sessions whose Close has returned

tcVars == <<tcIn, tcOut, tcPrev, tcCall>>
tsVars == <<tsIn, tsUnit, tsOut>>
qrsVars == <<rrs, rr, idx, pos, lastErr, rrObj, isBad, srv, out, ret, dest,
             nFetch, nFail, closeReqs, past>>
cacheVars == <<cache, writer, readers, pc, arg, res, todo, snap, evicted, sessClosed>>
vars == <<tcVars, tsVars, qrsVars, cacheVars>>

(***************************************************************************)
(* Type codes                                                              *)
(***************************************************************************)
\* typeCode is a byte
MaxTypeCode == 255
TypeCodes == 0..MaxTypeCode

tcNullL == 0
tcTinyint == 1
tcSmallint == 2
tcInteger == 3
tcBigint == 4
tcDecimal == 5
tcReal == 6
tcDouble == 7
tcChar == 8
tcVarchar == 9
tcNchar == 10
tcNvarchar == 11
tcBinary == 12
tcVarbinary == 13
tcDate == 14
tcTime == 15
tcTimestamp == 16
tcTimetz == 17
tcTimeltz == 18
tcTimestampTz == 19
tcTimestampLtz == 20
tcIntervalYm == 21
tcIntervalDs == 22
tcRowid == 23
tcUrowid == 24
tcClob == 25
tcNclob == 26
tcBlob == 27
tcBoolean == 28
tcString == 29
tcNstring == 30
tcLocator == 31
tcNlocator == 32
tcBstring == 33
tcDecimalDigitArray == 34
tcVarchar2 == 35
tcTable == 45
tcSmalldecimal == 47
tcAbapstream == 48
tcAbapstruct == 49
tcAarray == 50
tcText == 51
tcShorttext == 52
tcBintext == 53
tcAlphanum == 55
tcLongdate == 61
tcSeconddate == 62
tcDaydate == 63
tcSecondtime == 64
tcClocator == 70
tcBlobDiskReserved == 71
tcClobDiskReserved == 72
tcNclobDiskReserved == 73
tcStGeometry == 74
tcStPoint == 75
tcFixed16 == 76
tcAbapItab == 77
tcRecordRowStore == 78
tcRecordColumnStore == 79
tcFixed8 == 81
tcFixed12 == 82
tcCiphertext == 90
tcTableRef == 126
tcTableRows == 127

dataTypeMap ==
    (tcTinyint :> "DtTinyint") @@
    (tcSmallint :> "DtSmallint") @@
    (tcInteger :> "DtInteger") @@
    (tcBigint :> "DtBigint") @@
    (tcReal :> "DtReal") @@
    (tcDouble :> "DtDouble") @@
    (tcDate :> "DtTime") @@
    (tcTime :> "DtTime") @@
    (tcTimestamp :> "DtTime") @@
    (tcLongdate :> "DtTime") @@
    (tcSeconddate :> "DtTime") @@
    (tcDaydate :> "DtTime") @@
    (tcSecondtime :> "DtTime") @@
    (tcDecimal :> "DtDecimal") @@
    (tcChar :> "DtString") @@
    (tcVarchar :> "DtString") @@
    (tcString :> "DtString") @@
    (tcAlphanum :> "DtString") @@
    (tcNchar :> "DtString") @@
    (tcNvarchar :> "DtString") @@
    (tcNstring :> "DtString") @@
    (tcShorttext :> "DtString") @@
    (tcBinary :> "DtBytes") @@
    (tcVarbinary :> "DtBytes") @@
    (tcBlob :> "DtLob") @@
    (tcClob :> "DtLob") @@
    (tcNclob :> "DtLob") @@
    (tcText :> "DtLob") @@
    (tcBintext :> "DtLob") @@
    (tcTableRef :> "DtString") @@
    (tcTableRows :> "DtRows")

\* the canonical types (DataType)
DataTypes == {"DtTinyint", "DtSmallint", "DtInteger", "DtBigint", "DtReal",
              "DtDouble", "DtDecimal", "DtString", "DtBytes", "DtBoolean",
              "DtTime", "DtLob", "DtRows"}

NoCall == [panic |-> FALSE, dt |-> "none"]

\* a dataType that falls back to a default type instead of panicking
dataTypeDefault(tc) ==
    IF tc \in DOMAIN dataTypeMap
    THEN [panic |-> FALSE, dt |-> dataTypeMap[tc]]
    ELSE [panic |-> FALSE, dt |-> "DtString"]

\* typeCode.dataType: the map lookup, panic when the code is missing
dataType(tc) ==
    IF tc \in DOMAIN dataTypeMap
    THEN [panic |-> FALSE, dt |-> dataTypeMap[tc]]
    ELSE [panic |-> TRUE, dt |-> "none"]

\* isLob
isLob(tc) == tc \in {tcClob, tcNclob, tcBlob, tcText, tcBintext, tcLocator}

\* isCharBased
isCharBased(tc) == tc \in {tcNvarchar, tcNstring, tcNclob, tcText, tcBintext}

\* an encTc whose case list lacks tcLocator
encTcWithoutLocator(tc) == IF tc \in {tcText, tcBintext} THEN tcNclob ELSE tc

\* encTc
encTc(tc) == IF tc \in {tcText, tcBintext, tcLocator} THEN tcNclob ELSE tc

tcFieldTypeMap ==
    (tcTinyint :> "tinyintType") @@ (tcSmallint :> "smallintType") @@
    (tcInteger :> "integerType") @@ (tcBigint :> "bigintType") @@
    (tcReal :> "realType") @@ (tcDouble :> "doubleType") @@
    (tcDate :> "dateType") @@ (tcTime :> "timeType") @@
    (tcTimestamp :> "timestampType") @@ (tcLongdate :> "longdateType") @@
    (tcSeconddate :> "seconddateType") @@ (tcDaydate :> "daydateType") @@
    (tcSecondtime :> "secondtimeType") @@ (tcDecimal :> "decimalType") @@
    (tcChar :> "varType") @@ (tcVarchar :> "varType") @@
    (tcString :> "varType") @@ (tcAlphanum :> "alphaType") @@
    (tcNchar :> "cesu8Type") @@ (tcNvarchar :> "cesu8Type") @@
    (tcNstring :> "cesu8Type") @@ (tcShorttext :> "cesu8Type") @@
    (tcBinary :> "varType") @@ (tcVarbinary :> "varType") @@
    (tcBlob :> "lobVarType") @@ (tcClob :> "lobVarType") @@
    (tcNclob :> "lobCESU8Type") @@ (tcText :> "lobCESU8Type") @@
    (tcBintext :> "lobCESU8Type") @@ (tcLocator :> "lobCESU8Type")

\* fieldType: the map lookup, panic when the code is missing
fieldType(tc) ==
    IF tc \in DOMAIN tcFieldTypeMap THEN tcFieldTypeMap[tc] ELSE "panic"

NoTcCall == [op |-> "none"]

TcInit ==
    /\ tcIn \in TypeCodes
    /\ tcOut = NoCall
    /\ tcPrev = NoCall
    /\ tcCall = NoTcCall

\* the wire encoding of the column is looked up
TcEncTc ==
    /\ tcCall' = [op |-> "encTc", arg |-> tcIn, val |-> encTc(tcIn)]
    /\ UNCHANGED <<tcIn, tcOut, tcPrev>>

\* and the code it gave is looked up in turn
TcEncTcAgain ==
    /\ tcCall.op = "encTc"
    /\ tcCall' = [op |-> "encTc.encTc", arg |-> tcCall.val, val |-> encTc(tcCall.val)]
    /\ UNCHANGED <<tcIn, tcOut, tcPrev>>

\* the column's field is set up: is it character based, and which decoder reads it
TcIsCharBased ==
    /\ tcCall' = [op |-> "isCharBased", val |-> isCharBased(tcIn), ft |-> fieldType(tcIn)]
    /\ UNCHANGED <<tcIn, tcOut, tcPrev>>

\* the column is tested for a LOB and classified
TcIsLob ==
    /\ tcCall' = [op |-> "isLob", val |-> isLob(tcIn), dt |-> dataType(tcIn)]
    /\ UNCHANGED <<tcIn, tcOut, tcPrev>>

\* a caller classifies the column's type code (again)
TcDataType ==
    /\ tcOut' = dataType(tcIn)
    /\ tcPrev' = tcOut
    /\ UNCHANGED <<tcIn, tcCall>>

\* the next column carries another type code
TcNextField ==
    /\ tcIn' \in TypeCodes
    /\ tcOut' = NoCall
    /\ tcPrev' = NoCall
    /\ tcCall' = NoTcCall

(***************************************************************************)
(* Timestamps: a time.Time bound to an insert is stored at the precision   *)
(* of its column and scanned back (TestTimestampRounding)                  *)
(***************************************************************************)
NanosPerSecond == 1000000000
\* the precisions of the temporal columns: longdate (7 digits), timestamp
\* (milliseconds), seconddate
TsUnits == {100, 1000000, NanosPerSecond}

NoTime == [year |-> 0, month |-> 0, day |-> 0, hour |-> 0, min |-> 0, sec |-> 0, nsec |-> 0]

isLeap(y) == (y % 4 = 0 /\ y % 100 # 0) \/ y % 400 = 0
daysIn(y, m) ==
    IF m = 2 THEN (IF isLeap(y) THEN 29 ELSE 28)
    ELSE IF m \in {4, 6, 9, 11} THEN 30 ELSE 31

\* time.Date(year, month, day, hour, min, sec, nsec, time.UTC), normalised
TsDate(y, mo, d, h, mi, s, n) ==
    [year |-> y, month |-> mo, day |-> d, hour |-> h, min |-> mi, sec |-> s, nsec |-> n]

\* the values the tests bind: around the ends of a month and a year, a leap day,
\* and sub-second parts on both sides of half a unit
TsYears == {1999, 2000}
TsMonths == {2, 12}
TsDays == {1, 28, 29, 31}
TsNanos == {0, 49, 50, 499999, 500000, 499999999, 500000000, 999499999,
            999500000, 999999900, 999999949, 999999950}
TestTimes ==
    { TsDate(y, mo, d, h, mi, s, n) :
        y \in TsYears, mo \in TsMonths, d \in TsDays,
        h \in {0, 23}, mi \in {0, 59}, s \in {0, 59}, n \in TsNanos }
Times == { t \in TestTimes : t.day <= daysIn(t.year, t.month) }

\* one second later: the carry through seconds, minutes, hours, day, month, year
tsAddSecond(t) ==
    IF t.sec < 59 THEN [t EXCEPT !.sec = t.sec + 1]
    ELSE IF t.min < 59 THEN [t EXCEPT !.sec = 0, !.min = t.min + 1]
    ELSE IF t.hour < 23 THEN [t EXCEPT !.sec = 0, !.min = 0, !.hour = t.hour + 1]
    ELSE IF t.day < daysIn(t.year, t.month)
         THEN [t EXCEPT !.sec = 0, !.min = 0, !.hour = 0, !.day = t.day + 1]
    ELSE IF t.month < 12
         THEN [t EXCEPT !.sec = 0, !.min = 0, !.hour = 0, !.day = 1,
                        !.month = t.month + 1]
    ELSE [t EXCEPT !.sec = 0, !.min = 0, !.hour = 0, !.day = 1, !.month = 1,
                   !.year = t.year + 1]

\* an encoder that cuts the sub-second part off at the column's precision
tsTruncate(t, unit) == [t EXCEPT !.nsec = (t.nsec \div unit) * unit]

\* the encoder: the sub-second part to the nearest unit, half a unit up, and
\* the carry into the next second when that is a whole second
tsRound(t, unit) ==
    LET n == ((t.nsec + unit \div 2) \div unit) * unit
    IN  IF n >= NanosPerSecond
        THEN tsAddSecond([t EXCEPT !.nsec = 0])
        ELSE [t EXCEPT !.nsec = n]

TsInit ==
    /\ tsIn \in Times
    /\ tsUnit \in TsUnits
    /\ tsOut = NoTime

\* insert into t values(?) with tsIn, then select * from t
TsStore ==
    /\ tsOut = NoTime
    /\ tsOut' = tsRound(tsIn, tsUnit)
    /\ UNCHANGED <<tsIn, tsUnit>>

\* the next value of the test data, into a column of some precision
TsNextValue ==
    /\ tsOut # NoTime
    /\ tsIn' \in Times
    /\ tsUnit' \in TsUnits
    /\ tsOut' = NoTime

(***************************************************************************)
(* queryResultSet: the cursor                                              *)
(*                                                                         *)
(* r.rrs holds references to rowsResult objects.  Every method reads an    *)
(* object through r.rr only, so the model keeps the content of the object  *)
(* r.rr points to (rrObj) and the server's side of that result set (srv);  *)
(* the content of rrs[i] is drawn when NextResultSet makes it r.rr.        *)
(***************************************************************************)
MaxRs == 2          \* result sets of one call
MaxRows == 2        \* rows in one page
MaxPages == 2       \* pages the server sends for one result set
MaxFails == 1       \* fetchNext requests that fail, for one result set
MaxCloseReqs == 2   \* CloseResultsetID requests for one result set
MaxCols == 2        \* columns of a result set

Errors == {"errFetchA", "errFetchB"}

\* rows first..first+n-1 of a result set, in order
RowSeq(first, n) == [i \in 1..n |-> first + i - 1]

\* rowsResult accessors
numRow(o) == Len(o.rows)
lastPacket(o) == o.lastPacket
closed(o) == o.closed
rsID(o) == o.rsID
\* copyRow(idx, dest): the row at idx (0 stands for the panic of an index past the page)
copyRow(o, i) == IF i < Len(o.rows) THEN o.rows[i + 1] ELSE 0

\* r.s, the session the cursor was made for
qrsSession == "s1"

\* the fields of a result set: result sets differ in their column names and in
\* which of their columns are LOBs
fieldName(id, j) == <<"col", id, j>>
fieldIsLob(id, j) == (id + j) % 2 = 1
\* rowsResult.columns
columns(o) == [j \in 1..MaxCols |-> fieldName(rsID(o), j)]
\* the values copyRow leaves in dest: a LOB value is decoded without a session
rowValues(o) == [j \in 1..MaxCols |-> [lob |-> fieldIsLob(rsID(o), j), s |-> "nil"]]

\* a page as the server sends it: the server closes the result set with its final packet
Page(ref, first, n, last) ==
    [rows |-> RowSeq(first, n), lastPacket |-> last, closed |-> last, rsID |-> ref]

\* a rowsResult whose fieldValues and attrs are nil
NilPage(o) == [rows |-> <<>>, lastPacket |-> FALSE, closed |-> FALSE, rsID |-> o.rsID]

\* the server side of a result set: before its first page, and after a page of n rows
NoneSent == [np |-> 0, nr |-> 0, nonEmpty |-> TRUE, closed |-> FALSE]
Sent(sv, n, last) ==
    [np |-> sv.np + 1, nr |-> sv.nr + n, nonEmpty |-> sv.nonEmpty /\ n > 0,
     closed |-> last]

\* the first page of a result set, as the call's reply carries it
FirstPages(ref) ==
    { [rr |-> Page(ref, 1, n, last), srv |-> Sent(NoneSent, n, last)]
      : n \in 0..MaxRows, last \in BOOLEAN }

\* Session.fetchNext(rr): what one request can end in. A reply carries the next
\* page (possibly empty) and its attributes; a failure leaves rr as it was or with
\* fieldValues and attrs nil (a connection that breaks is SessionBreaks).
fetchNext(o) ==
    LET canSend == ~srv.closed /\ srv.np < MaxPages
    IN  { [err |-> "nil",
           rr |-> Page(o.rsID, srv.nr + 1, n, last),
           srv |-> Sent(srv, n, last)]
          : n \in IF canSend THEN 0..MaxRows ELSE {},
            last \in BOOLEAN }
        \cup
        { [err |-> e, rr |-> p, srv |-> srv]
          : e \in IF nFail < MaxFails THEN Errors ELSE {},
            p \in {o, NilPage(o)} }

\* Session.CloseResultsetID(id): ack or error; the handle is released on ack
CloseResultsetID(id) ==
    { [err |-> "nil", closed |-> TRUE],
      [err |-> "errClose", closed |-> srv.closed] }

Ret(op, err) == [op |-> op, err |-> err]
RetColumns(cols) == [op |-> "Columns", err |-> "nil", cols |-> cols]

\* a constructor without the test for an empty list, which leaves rr nil then
newQueryResultSetUnchecked(refs) ==
    [panic |-> FALSE, rrs |-> refs, rr |-> IF Len(refs) = 0 THEN 0 ELSE refs[1],
     idx |-> 0, pos |-> 0, lastErr |-> "nil"]

\* newQueryResultSet(s, rrs...): panics on an empty list, else the cursor on rrs[0]
newQueryResultSet(refs) ==
    IF Len(refs) = 0
    THEN [panic |-> TRUE, rrs |-> <<>>, rr |-> 0, idx |-> 0, pos |-> 0, lastErr |-> "nil"]
    ELSE [panic |-> FALSE, rrs |-> refs, rr |-> refs[1], idx |-> 0, pos |-> 0,
          lastErr |-> "nil"]

\* the caller has a cursor: the constructor returned
hasCursor == ret # Ret("new", "panic")

\* the call's reply holds 0..MaxRs result sets; on a panic of the constructor
\* there is no cursor, and the other variables are placeholders
QrsInit ==
    /\ \E n \in 0..MaxRs :
         LET r == newQueryResultSet([i \in 1..n |-> i])
         IN  /\ rrs = r.rrs /\ rr = r.rr /\ idx = r.idx /\ pos = r.pos
             /\ lastErr = r.lastErr
             /\ ret = Ret("new", IF r.panic THEN "panic" ELSE "nil")
             /\ IF n = 0
                THEN rrObj = Page(0, 1, 0, TRUE) /\ srv = Sent(NoneSent, 0, TRUE)
                ELSE \E f \in FirstPages(r.rr) : rrObj = f.rr /\ srv = f.srv
    /\ isBad = FALSE
    /\ out = <<>>
    /\ dest = <<>>
    /\ nFetch = 0
    /\ nFail = 0
    /\ closeReqs = <<>>
    /\ past = {}

\* line 754: the page is used up
pageDone(p, n) == p >= n

\* a Next that forgets r.pos = 0 after the fetch
posKept == pos

\* line 765: the position in the fetched page
posAfterFetch == 0

\* a Next that hands the values back as copyRow left them
isNeverSessionSetter(v) == FALSE

\* line 773: the value is a sessionSetter
isSessionSetter(v) == v.lob

\* lines 772-776: setSession(r.s) on every sessionSetter in dest
setSessions(vals, s) ==
    [j \in DOMAIN vals |-> IF isSessionSetter(vals[j]) THEN [vals[j] EXCEPT !.s = s]
                                                      ELSE vals[j]]

\* lines 768-777: copy the row at p, advance, bind the row's LOBs to the session
NextCopy(p, o) ==
    /\ pos' = p + 1
    /\ out' = Append(out, copyRow(o, p))
    /\ dest' = setSessions(rowValues(o), qrsSession)
    /\ ret' = Ret("Next", "nil")

\* a Next that takes an empty fetched page for a page with rows
pageNeverEmpty(o) == FALSE

\* line 762: the fetched page holds no rows
pageEmpty(o) == numRow(o) = 0

\* lines 758-765: one fetchNext request and what Next does with its outcome
NextFetch ==
    \E f \in fetchNext(rrObj) :
        /\ nFetch' = nFetch + 1
        /\ rrObj' = f.rr
        /\ srv' = f.srv
        /\ IF f.err # "nil"
           THEN /\ lastErr' = f.err
                /\ nFail' = nFail + 1
                /\ ret' = Ret("Next", f.err)
                /\ UNCHANGED <<pos, out, dest>>
           ELSE /\ UNCHANGED <<lastErr, nFail>>
                /\ IF pageEmpty(f.rr)
                   THEN /\ ret' = Ret("Next", "EOF")
                        /\ UNCHANGED <<pos, out, dest>>
                   ELSE NextCopy(posAfterFetch, f.rr)

\* a Next that does not ask the session
connNeverBad(b) == FALSE

\* line 750: r.s.IsBad()
connIsBad(b) == b

\* queryResultSet.Next
QrsNext ==
    /\ UNCHANGED <<rrs, rr, idx, isBad, closeReqs, past>>
    /\ IF connIsBad(isBad)
       THEN /\ ret' = Ret("Next", "ErrBadConn")
            /\ UNCHANGED <<pos, lastErr, rrObj, srv, out, dest, nFetch, nFail>>
       ELSE IF pageDone(pos, numRow(rrObj))
       THEN IF lastPacket(rrObj)
            THEN /\ ret' = Ret("Next", "EOF")
                 /\ UNCHANGED <<pos, lastErr, rrObj, srv, out, dest, nFetch, nFail>>
            ELSE NextFetch
       ELSE /\ NextCopy(pos, rrObj)
            /\ UNCHANGED <<lastErr, rrObj, srv, nFetch, nFail>>

\* line 743: the handle still has to be released
mustRelease(o) == ~closed(o)

\* a Close that does not look at r.lastErr
closeIgnoresErr(e) == FALSE

\* line 739: Close gives up with the recorded error
closeGivesUp(e) == e # "nil"

\* queryResultSet.Close
QrsClose ==
    /\ UNCHANGED <<rrs, rr, idx, pos, lastErr, rrObj, isBad, out, dest, nFetch, nFail>>
    /\ past' = past \cup {"Close"}
    /\ IF closeGivesUp(lastErr)
       THEN /\ ret' = Ret("Close", lastErr)
            /\ UNCHANGED <<srv, closeReqs>>
       ELSE IF mustRelease(rrObj)
       THEN /\ Len(closeReqs) < MaxCloseReqs
            /\ \E c \in CloseResultsetID(rsID(rrObj)) :
                 /\ closeReqs' = Append(closeReqs, rsID(rrObj))
                 /\ srv' = [srv EXCEPT !.closed = c.closed]
                 /\ ret' = Ret("Close", c.err)
       ELSE /\ ret' = Ret("Close", "nil")
            /\ UNCHANGED <<srv, closeReqs>>

\* queryResultSet.HasNextResultSet
HasNextResultSet == (idx + 1) < Len(rrs)

\* queryResultSet.Columns
QrsColumns ==
    /\ ret' = RetColumns(columns(rrObj))
    /\ UNCHANGED <<rrs, rr, idx, pos, lastErr, rrObj, isBad, srv, out, dest,
                   nFetch, nFail, closeReqs, past>>

\* a NextResultSet that starts over at the first result set
idxRewound(i) == 0

\* line 789: r.idx++
idxAfterAdvance(i) == i + 1

\* a NextResultSet that forgets to switch r.rr
rrKept(s, i) == rr

\* line 790: r.rrs[r.idx], the slice being 0-based
rrAt(s, i) == s[i + 1]

\* a NextResultSet that leaves r.lastErr as it is
errKept(e) == e

\* line 788: r.lastErr = nil
errAfterAdvance(e) == "nil"

\* queryResultSet.NextResultSet
QrsNextResultSet ==
    /\ UNCHANGED <<rrs, pos, isBad, dest>>
    /\ IF ~HasNextResultSet
       THEN /\ ret' = Ret("NextResultSet", "EOF")
            /\ UNCHANGED <<rr, idx, lastErr, rrObj, srv, out, nFetch, nFail, closeReqs,
                           past>>
       ELSE /\ lastErr' = errAfterAdvance(lastErr)
            /\ past' = IF lastErr # "nil" THEN past \cup {"errCleared"} ELSE past
            /\ idx' = idxAfterAdvance(idx)
            /\ rr' = rrAt(rrs, idx')
            /\ \E f \in FirstPages(rr') : rrObj' = f.rr /\ srv' = f.srv
            /\ out' = <<>> /\ nFetch' = 0 /\ nFail' = 0 /\ closeReqs' = <<>>
            /\ ret' = Ret("NextResultSet", "nil")

\* the connection of the session breaks
SessionBreaks ==
    /\ ~isBad
    /\ isBad' = TRUE
    /\ UNCHANGED <<rrs, rr, idx, pos, lastErr, rrObj, srv, out, ret, dest,
                   nFetch, nFail, closeReqs, past>>

(***************************************************************************)
(* queryResultSetCache: QrsCache, shared by the goroutines of all sessions *)
(***************************************************************************)
MaxId == 2      \* result set identifiers 1..MaxId

\* one goroutine drives one session: the caller serialises the use of a session
Sessions == {"s1", "s2", "s3"}
CacheIds == 1..MaxId
\* a cursor, by its field s: one cursor for each session
Cursors == [s : Sessions]
None == "none"
NilQrs == [s |-> "nil"]
NoArg == [id |-> 0, qrs |-> NilQrs]
NoRes == [qrs |-> NilQrs, ok |-> FALSE]

\* c.cache as a set of entries, at most one per id
Keys(c) == {e.id : e \in c}
\* qrs, ok := c.cache[id]
mapGet(c, id) ==
    IF id \in Keys(c)
    THEN [qrs |-> (CHOOSE e \in c : e.id = id).qrs, ok |-> TRUE]
    ELSE [qrs |-> NilQrs, ok |-> FALSE]
\* a set that keeps the entry an id already has
mapSetIfAbsent(c, id, qrs) ==
    IF id \in Keys(c) THEN c ELSE c \cup {[id |-> id, qrs |-> qrs]}
\* c.cache[id] = qrs
mapSet(c, id, qrs) == {e \in c : e.id # id} \cup {[id |-> id, qrs |-> qrs]}
\* delete(c.cache, id)
mapDelete(c, id) == {e \in c : e.id # id}

\* sync.RWMutex: Lock waits for the writer and all readers to leave; RLock waits
\* for the writer to leave and for no Lock call to be pending
LockPending == \E u \in Sessions : pc[u] \in {"set_lock", "cleanup_lock"}
\* the goroutines whose RLock is blocked while a Lock is held
RLockBlocked == {u \in Sessions : pc[u] = "get_rlock"}
\* a call that returns without its deferred Unlock
unlockForgotten(t) ==
    /\ UNCHANGED <<writer, readers>>
    /\ pc' = [pc EXCEPT ![t] = "idle"]

\* Unlock: the lock is free and every RLock blocked on it returns (RLock calls
\* blocked by a Lock wait until that writer has acquired and released the lock)
unlocked(t) ==
    /\ writer' = None
    /\ readers' = readers \cup RLockBlocked
    /\ pc' = [u \in Sessions |->
                IF u = t THEN "idle"
                ELSE IF u \in RLockBlocked THEN "get_read" ELSE pc[u]]
canLock == writer = None /\ readers = {}
canRLock == writer = None /\ ~LockPending

CacheInit ==
    /\ cache = {}
    /\ writer = None
    /\ readers = {}
    /\ pc = [t \in Sessions |-> "idle"]
    /\ arg = [t \in Sessions |-> NoArg]
    /\ res = [t \in Sessions |-> NoRes]
    /\ todo = [t \in Sessions |-> {}]
    /\ snap = [t \in Sessions |-> {}]
    /\ evicted = {}
    /\ sessClosed = {}

\* ---- set(id, qrs), called by the session of qrs while it is open
CallSet(t) ==
    /\ pc[t] = "idle"
    /\ t \notin sessClosed
    /\ \E id \in CacheIds, q \in {c \in Cursors : c.s = t} :
         arg' = [arg EXCEPT ![t] = [id |-> id, qrs |-> q]]
    /\ pc' = [pc EXCEPT ![t] = "set_lock"]
    /\ UNCHANGED <<cache, writer, readers, res, todo, snap, evicted, sessClosed>>

\* a set that writes the map without taking the lock
setAcquireNone(t) == UNCHANGED <<writer, readers>>

\* line 830: c.mu.Lock()
setAcquire(t) ==
    /\ canLock
    /\ writer' = t
    /\ UNCHANGED readers

SetLock(t) ==
    /\ pc[t] = "set_lock"
    /\ setAcquire(t)
    /\ pc' = [pc EXCEPT ![t] = "set_write"]
    /\ UNCHANGED <<cache, arg, res, todo, snap, evicted, sessClosed>>

\* line 832: c.cache[id] = qrs
SetWrite(t) ==
    /\ pc[t] = "set_write"
    /\ cache' = mapSet(cache, arg[t].id, arg[t].qrs)
    /\ pc' = [pc EXCEPT ![t] = "set_unlock"]
    /\ UNCHANGED <<writer, readers, arg, res, todo, snap, evicted, sessClosed>>

\* lines 831, 833: return id, the deferred c.mu.Unlock()
SetUnlock(t) ==
    /\ pc[t] = "set_unlock"
    /\ unlocked(t)
    /\ arg' = [arg EXCEPT ![t] = NoArg]
    /\ UNCHANGED <<cache, res, todo, snap, evicted, sessClosed>>

\* ---- Get(id), called by any goroutine
CallGet(t) ==
    /\ pc[t] = "idle"
    /\ \E id \in CacheIds : arg' = [arg EXCEPT ![t] = [id |-> id, qrs |-> NilQrs]]
    /\ pc' = [pc EXCEPT ![t] = "get_rlock"]
    /\ UNCHANGED <<cache, writer, readers, res, todo, snap, evicted, sessClosed>>

\* line 837: c.mu.RLock()
GetRLock(t) ==
    /\ pc[t] = "get_rlock"
    /\ canRLock
    /\ readers' = readers \cup {t}
    /\ pc' = [pc EXCEPT ![t] = "get_read"]
    /\ UNCHANGED <<cache, writer, arg, res, todo, snap, evicted, sessClosed>>

\* a Get that reports every id as found
getReadAlways(c, id) == [qrs |-> mapGet(c, id).qrs, ok |-> TRUE]

\* line 839: qrs, ok := c.cache[id]
getRead(c, id) == mapGet(c, id)

GetRead(t) ==
    /\ pc[t] = "get_read"
    /\ res' = [res EXCEPT ![t] = getRead(cache, arg[t].id)]
    /\ pc' = [pc EXCEPT ![t] = "get_runlock"]
    /\ UNCHANGED <<cache, writer, readers, arg, todo, snap, evicted, sessClosed>>

\* lines 838, 840: return qrs, ok, the deferred c.mu.RUnlock()
GetRUnlock(t) ==
    /\ pc[t] = "get_runlock"
    /\ readers' = readers \ {t}
    /\ pc' = [pc EXCEPT ![t] = "idle"]
    /\ arg' = [arg EXCEPT ![t] = NoArg]
    /\ res' = [res EXCEPT ![t] = NoRes]
    /\ UNCHANGED <<cache, writer, todo, snap, evicted, sessClosed>>

\* ---- Session.Close of session t, which calls QrsCache.cleanup(t)
CallClose(t) ==
    /\ pc[t] = "idle"
    /\ t \notin sessClosed
    /\ pc' = [pc EXCEPT ![t] = "cleanup_lock"]
    /\ UNCHANGED <<cache, writer, readers, arg, res, todo, snap, evicted, sessClosed>>

\* line 844: c.mu.Lock(); line 846: the range starts over the keys present
CleanupLock(t) ==
    /\ pc[t] = "cleanup_lock"
    /\ canLock
    /\ writer' = t
    /\ todo' = [todo EXCEPT ![t] = Keys(cache)]
    /\ snap' = [snap EXCEPT ![t] = {e \in cache : e.qrs.s = t}]
    /\ pc' = [pc EXCEPT ![t] = "cleanup_range"]
    /\ UNCHANGED <<cache, readers, arg, res, evicted, sessClosed>>

\* a cleanup whose comparison is inverted
ownedByOther(qrs, s) == qrs.s # s

\* a cleanup that deletes whatever it ranges over
ownedByAnyone(qrs, s) == TRUE

\* line 847: the entry is one of session s
ownedBy(qrs, s) == qrs.s = s

\* lines 846-850: one iteration of the range loop, in the map's arbitrary order
CleanupRange(t) ==
    /\ pc[t] = "cleanup_range"
    /\ todo[t] # {}
    /\ \E id \in todo[t] :
         /\ todo' = [todo EXCEPT ![t] = todo[t] \ {id}]
         /\ IF ownedBy(mapGet(cache, id).qrs, t)
            THEN cache' = mapDelete(cache, id) /\ evicted' = evicted \cup {t}
            ELSE UNCHANGED <<cache, evicted>>
    /\ UNCHANGED <<writer, readers, pc, arg, res, snap, sessClosed>>

\* the range is over
CleanupRangeEnd(t) ==
    /\ pc[t] = "cleanup_range"
    /\ todo[t] = {}
    /\ pc' = [pc EXCEPT ![t] = "cleanup_unlock"]
    /\ UNCHANGED <<cache, writer, readers, arg, res, todo, snap, evicted, sessClosed>>

\* line 845: the deferred c.mu.Unlock(); cleanup and the session's Close return
CleanupUnlock(t) ==
    /\ pc[t] = "cleanup_unlock"
    /\ unlocked(t)
    /\ sessClosed' = sessClosed \cup {t}
    /\ snap' = [snap EXCEPT ![t] = {}]
    /\ UNCHANGED <<cache, arg, res, todo, evicted>>

(***************************************************************************)
(* Specifications                                                          *)
(***************************************************************************)
\* the parts a specification does not exercise stay as constructed
TcIdle == tcIn = 0 /\ tcOut = NoCall /\ tcPrev = NoCall /\ tcCall = NoTcCall
TsIdle == tsIn = NoTime /\ tsUnit = 1 /\ tsOut = NoTime
QrsIdle ==
    /\ rrs = <<1>> /\ rr = 1 /\ idx = 0 /\ pos = 0 /\ lastErr = "nil"
    /\ rrObj = Page(1, 1, 0, TRUE)
    /\ srv = Sent(NoneSent, 0, TRUE)
    /\ isBad = FALSE /\ out = <<>> /\ ret = Ret("new", "nil") /\ dest = <<>>
    /\ nFetch = 0 /\ nFail = 0 /\ closeReqs = <<>> /\ past = {}

\* ---- one cursor and its session
Init == QrsInit /\ TcIdle /\ TsIdle /\ CacheInit
Next ==
    \/ hasCursor /\ QrsNext /\ UNCHANGED <<tcVars, tsVars, cacheVars>>
    \/ hasCursor /\ QrsClose /\ UNCHANGED <<tcVars, tsVars, cacheVars>>
    \/ hasCursor /\ QrsNextResultSet /\ UNCHANGED <<tcVars, tsVars, cacheVars>>
    \/ hasCursor /\ QrsColumns /\ UNCHANGED <<tcVars, tsVars, cacheVars>>
    \/ hasCursor /\ SessionBreaks /\ UNCHANGED <<tcVars, tsVars, cacheVars>>
Spec == Init /\ [][Next]_vars

\* ---- the goroutines of the sessions on QrsCache
CacheNext ==
    \/ \E t \in Sessions : CallSet(t) /\ UNCHANGED <<tcVars, tsVars, qrsVars>>
    \/ \E t \in Sessions : SetLock(t) /\ UNCHANGED <<tcVars, tsVars, qrsVars>>
    \/ \E t \in Sessions : SetWrite(t) /\ UNCHANGED <<tcVars, tsVars, qrsVars>>
    \/ \E t \in Sessions : SetUnlock(t) /\ UNCHANGED <<tcVars, tsVars, qrsVars>>
    \/ \E t \in Sessions : CallGet(t) /\ UNCHANGED <<tcVars, tsVars, qrsVars>>
    \/ \E t \in Sessions : GetRLock(t) /\ UNCHANGED <<tcVars, tsVars, qrsVars>>
    \/ \E t \in Sessions : GetRead(t) /\ UNCHANGED <<tcVars, tsVars, qrsVars>>
    \/ \E t \in Sessions : GetRUnlock(t) /\ UNCHANGED <<tcVars, tsVars, qrsVars>>
    \/ \E t \in Sessions : CallClose(t) /\ UNCHANGED <<tcVars, tsVars, qrsVars>>
    \/ \E t \in Sessions : CleanupLock(t) /\ UNCHANGED <<tcVars, tsVars, qrsVars>>
    \/ \E t \in Sessions : CleanupRange(t) /\ UNCHANGED <<tcVars, tsVars, qrsVars>>
    \/ \E t \in Sessions : CleanupRangeEnd(t) /\ UNCHANGED <<tcVars, tsVars, qrsVars>>
    \/ \E t \in Sessions : CleanupUnlock(t) /\ UNCHANGED <<tcVars, tsVars, qrsVars>>
CacheSpecInit == CacheInit /\ TcIdle /\ TsIdle /\ QrsIdle
SpecCache == CacheSpecInit /\ [][CacheNext]_vars

\* ---- the same under the scheduling of the Go runtime: a goroutine that can
\* take its next step inside set, Get or cleanup, or whose RLock can return,
\* takes it (the scheduler is preemptive), and a goroutine waiting in Lock
\* that can get the lock again and again gets it (a sync.Mutex waiter that
\* fails to acquire for 1ms is handed the lock next). Nothing makes a caller
\* call. A goroutine is at one place, so one condition covers its steps.
GoStep(t) ==
    \/ SetWrite(t) \/ SetUnlock(t) \/ GetRLock(t) \/ GetRead(t) \/ GetRUnlock(t)
    \/ CleanupRange(t) \/ CleanupRangeEnd(t) \/ CleanupUnlock(t)
GoLock(t) == SetLock(t) \/ CleanupLock(t)
CacheFairness ==
    \A t \in Sessions :
        /\ WF_vars(GoStep(t) /\ UNCHANGED <<tcVars, tsVars, qrsVars>>)
        /\ SF_vars(GoLock(t) /\ UNCHANGED <<tcVars, tsVars, qrsVars>>)
SpecCacheFair == SpecCache /\ CacheFairness

\* ---- dataType, encTc, isCharBased and fieldType over every byte
TcNext ==
    \/ TcDataType /\ UNCHANGED <<tsVars, qrsVars, cacheVars>>
    \/ TcNextField /\ UNCHANGED <<tsVars, qrsVars, cacheVars>>
    \/ TcEncTc /\ UNCHANGED <<tsVars, qrsVars, cacheVars>>
    \/ TcEncTcAgain /\ UNCHANGED <<tsVars, qrsVars, cacheVars>>
    \/ TcIsCharBased /\ UNCHANGED <<tsVars, qrsVars, cacheVars>>
    \/ TcIsLob /\ UNCHANGED <<tsVars, qrsVars, cacheVars>>
TcSpecInit == TcInit /\ TsIdle /\ QrsIdle /\ CacheInit
SpecTc == TcSpecInit /\ [][TcNext]_vars

\* ---- timestamps written to a column and read back
TsNext ==
    \/ TsStore /\ UNCHANGED <<tcVars, qrsVars, cacheVars>>
    \/ TsNextValue /\ UNCHANGED <<tcVars, qrsVars, cacheVars>>
TsSpecInit == TsInit /\ TcIdle /\ QrsIdle /\ CacheInit
SpecTs == TsSpecInit /\ [][TsNext]_vars

(***************************************************************************)
(* Properties                                                              *)
(***************************************************************************)
\* Next is called on the cursor's first result set, no fetch has failed and every
\* page the server has sent holds rows
PagedCleanly == idx = 0 /\ nFail = 0 /\ srv.nonEmpty

\* C1: over one result set sent as n non-empty pages, the Next calls return every
\* row of every page once, in page order and in the order within the page (rows
\* 1, 2, 3, ... of the result set), all rows of a page before the next fetch;
\* they issue n-1 fetchNext requests; and Next returns io.EOF only after the last
\* row of the final page, and nothing but a row or io.EOF on a good connection.
C1_PagesInOrder ==
    PagedCleanly =>
        /\ out = RowSeq(1, Len(out))
        /\ pos <= numRow(rrObj)
        /\ Len(out) = (srv.nr - numRow(rrObj)) + pos
        /\ nFetch = srv.np - 1
        /\ (ret = Ret("Next", "EOF") => lastPacket(rrObj) /\ Len(out) = srv.nr)
        /\ (ret.op = "Next" => ret.err \in {"nil", "EOF", "ErrBadConn"})
        /\ (ret = Ret("Next", "ErrBadConn") => isBad)

\* two full pages were read to the end: four rows, one fetch, then io.EOF
C1_Witness ==
    /\ PagedCleanly
    /\ srv.np = 2
    /\ out = <<1, 2, 3, 4>>
    /\ nFetch = 1
    /\ ret = Ret("Next", "EOF")

\* C2: once a fetchNext has failed inside Next (r.lastErr is set), every later Next
\* returns that error and issues no fetchNext request.
C2_ErroredNextRepeatsError ==
    [][(lastErr # "nil" /\ QrsNext) =>
           (ret' = Ret("Next", lastErr) /\ nFetch' = nFetch)]_vars

\* C3: when set(id, qrs) has stored its entry, a lookup of id gives (qrs, true);
\* when cleanup(s) has finished its range, a lookup of any id the session had an
\* entry for gives ok = false.
C3_SetThenGetThenCleanup ==
    \A t \in Sessions :
        /\ pc[t] = "set_unlock" =>
               getRead(cache, arg[t].id) = [qrs |-> arg[t].qrs, ok |-> TRUE]
        /\ pc[t] = "cleanup_unlock" =>
               \A e \in snap[t] : ~getRead(cache, e.id).ok

\* a cleanup is about to return for a session that had an entry registered
C3_Witness ==
    \E t \in Sessions : pc[t] = "cleanup_unlock" /\ snap[t] # {} /\ cache # {}

\* C4: for a type code of dataTypeMap dataType returns a canonical type, the same
\* on every call; for every other byte it panics and returns no type.
C4_DataTypeOrPanic ==
    tcOut # NoCall =>
        IF tcIn \in DOMAIN dataTypeMap
        THEN /\ ~tcOut.panic
             /\ tcOut.dt \in DataTypes
             /\ (tcPrev # NoCall => tcPrev = tcOut)
        ELSE /\ tcOut.panic
             /\ tcOut.dt \notin DataTypes

\* dataType was called on tcBoolean, which dataTypeMap does not hold, and panicked
C4_Witness == tcIn = tcBoolean /\ tcOut.panic

\* C5: Close issues a CloseResultsetID request for r.rr's rsID exactly when r.rr is
\* not closed and r.lastErr is nil; with a recorded error, and with the final page
\* read to its end, it issues none.
C5_CloseReleasesOpenHandle ==
    [][QrsClose =>
          /\ IF lastErr = "nil" /\ ~closed(rrObj)
             THEN closeReqs' = Append(closeReqs, rsID(rrObj))
             ELSE closeReqs' = closeReqs
          /\ (lastPacket(rrObj) /\ pos >= numRow(rrObj) => closeReqs' = closeReqs)
          /\ (lastErr # "nil" => closeReqs' = closeReqs /\ ret' = Ret("Close", lastErr))
      ]_vars

\* Close has released the handle of a result set whose final page never came
C5_Witness ==
    /\ ret = Ret("Close", "nil")
    /\ lastErr = "nil"
    /\ ~lastPacket(rrObj)
    /\ closeReqs = <<rsID(rrObj)>>

\* C6: a Close that follows a Close issues no CloseResultsetID request and leaves
\* the cursor as the first Close left it.
C6_CloseIdempotent ==
    [][(ret.op = "Close" /\ QrsClose) =>
           /\ closeReqs' = closeReqs
           /\ UNCHANGED <<rrs, rr, idx, pos, lastErr, rrObj>>]_vars

InWrite(t) == pc[t] \in {"set_write", "set_unlock", "cleanup_range", "cleanup_unlock"}
InRead(t) == pc[t] \in {"get_read", "get_runlock"}

\* C8: while a set or a cleanup is between its Lock and its Unlock no other call is
\* between its lock and its unlock (only Gets overlap each other), so a Get never
\* reads the map while a cleanup is in its range loop or a set has yet to return.
C8_WritersExclusive ==
    \A t \in Sessions :
        InWrite(t) => \A u \in Sessions \ {t} : ~InWrite(u) /\ ~InRead(u)

\* two Gets read the map at the same time while a set or cleanup waits for them
C8_Witness ==
    \E t, u, w \in Sessions :
        /\ t # u
        /\ InRead(t) /\ InRead(u)
        /\ pc[w] \in {"set_lock", "cleanup_lock"}

\* C9: a set for a cursor of one session never replaces or removes an entry
\* registered for a cursor of another session.
C9_SetKeepsOtherSessions ==
    [][\A t \in Sessions :
          SetWrite(t) =>
              \A e \in cache : e.qrs.s # arg[t].qrs.s => e \in cache']_vars

\* C10: a Get of an id the map does not hold (never set, or deleted by a cleanup)
\* returns ok = false and the nil cursor, and no step of a Get changes the map.
C10_GetMissAndReadOnly ==
    /\ [](\A t \in Sessions :
             (pc[t] = "get_runlock" /\ arg[t].id \notin Keys(cache)) =>
                 res[t] = [qrs |-> NilQrs, ok |-> FALSE])
    /\ [][\A t \in Sessions :
             (CallGet(t) \/ GetRLock(t) \/ GetRead(t) \/ GetRUnlock(t)) =>
                 cache' = cache]_vars

\* a Get is about to return a miss after a cleanup has deleted entries
C10_Witness ==
    \E t \in Sessions :
        /\ pc[t] = "get_runlock"
        /\ ~res[t].ok
        /\ evicted # {}

\* seconds from 1999-01-01 00:00:00 to the second t lies in
RECURSIVE tsDaysBeforeMonth(_, _)
tsDaysBeforeMonth(y, m) == IF m = 1 THEN 0 ELSE tsDaysBeforeMonth(y, m - 1) + daysIn(y, m - 1)
RECURSIVE tsDaysBeforeYear(_)
tsDaysBeforeYear(y) ==
    IF y <= 1999 THEN 0
    ELSE tsDaysBeforeYear(y - 1) + (IF isLeap(y - 1) THEN 366 ELSE 365)
tsSeconds(t) ==
    (tsDaysBeforeYear(t.year) + tsDaysBeforeMonth(t.year, t.month) + (t.day - 1)) * 86400
    + t.hour * 3600 + t.min * 60 + t.sec
\* nanoseconds from a to b, for instants at most a second apart
tsNanosBetween(a, b) ==
    (tsSeconds(b) - tsSeconds(a)) * NanosPerSecond + b.nsec - a.nsec
tsStored == tsOut # NoTime
TsYearEnd(y) == TsDate(y, 12, 31, 23, 59, 59, 999999900)

C12_PosWithinPage == pos <= numRow(rrObj)

\* a step of Next that issues a fetchNext request
NextFetches == QrsNext /\ nFetch' = nFetch + 1
\* the rows of the current page that no Next has returned
UnreadRows == {rrObj.rows[i] : i \in 1..numRow(rrObj)} \ {out[i] : i \in 1..Len(out)}

\* C13: Next issues a fetchNext request only when the position has reached the
\* row count of the current page and that page is not the final one: never
\* while rows of the page are unread, never after the final page
C13_FetchOnlyAtPageEnd ==
    [][NextFetches =>
         /\ pos >= numRow(rrObj)
         /\ ~lastPacket(rrObj)
         /\ UnreadRows = {}]_vars

\* a step of Next whose fetchNext succeeds and delivers a page without rows
NextFetchesEmptyPage == NextFetches /\ nFail' = nFail /\ numRow(rrObj') = 0

\* C14: a Next whose fetchNext succeeds with a page of zero rows returns io.EOF
\* and hands out no row; no Next issues more than one fetchNext request,
\* whatever the request ends in
C14_EmptyPageEndsNext ==
    [][QrsNext =>
         /\ nFetch' \in {nFetch, nFetch + 1}
         /\ nFail' \in {nFail, nFail + 1}
         /\ NextFetchesEmptyPage =>
              (ret' = Ret("Next", "EOF") /\ out' = out /\ dest' = dest)]_vars
C14_Witness ==
    /\ ret = Ret("Next", "EOF")
    /\ nFetch = 1 /\ nFail = 0
    /\ srv.np = 2
    /\ numRow(rrObj) = 0 /\ ~lastPacket(rrObj)
    /\ out = <<1>>

\* C15: NextResultSet moves the index up by exactly one when idx + 1 is below
\* the number of result sets, which is when HasNextResultSet holds, and
\* otherwise returns io.EOF and leaves the cursor as it was; no operation
\* lowers the index or changes the result sets
C15_ForwardOnly ==
    [][/\ idx' >= idx
       /\ rrs' = rrs
       /\ HasNextResultSet <=> idx + 1 < Len(rrs)
       /\ QrsNextResultSet =>
            IF idx + 1 < Len(rrs)
            THEN idx' = idx + 1 /\ ret' = Ret("NextResultSet", "nil")
            ELSE /\ ret' = Ret("NextResultSet", "EOF")
                 /\ UNCHANGED <<rrs, rr, idx, pos, lastErr, rrObj>>
       /\ ~QrsNextResultSet => idx' = idx]_vars
C15_Witness ==
    /\ Len(rrs) = 2
    /\ idx = 1
    /\ ret = Ret("NextResultSet", "EOF")

\* cleanup(t) holds the lock: from its Lock to its deferred Unlock
InCleanup(t) == pc[t] \in {"cleanup_range", "cleanup_unlock"}
\* the entries of the sessions other than t
EntriesOfOthers(c, t) == {e \in c : e.qrs.s # t}

\* C16: when cleanup(s) has ranged over the map no entry of s is left, and from
\* its Lock to its Unlock no step removes or changes an entry of another
\* session: each is there afterwards under its id with its cursor
C16_CleanupKeepsOtherSessions ==
    /\ [](\A t \in Sessions :
            pc[t] = "cleanup_unlock" => \A e \in cache : e.qrs.s # t)
    /\ [][\A t \in Sessions :
            InCleanup(t) => EntriesOfOthers(cache', t) = EntriesOfOthers(cache, t)]_vars
C16_Witness ==
    \E t \in Sessions :
        /\ pc[t] = "cleanup_unlock"
        /\ t \in evicted
        /\ \E e \in cache : e.qrs.s # t

\* a step of Next that returns a row
NextReturnsRow == QrsNext /\ ret' = Ret("Next", "nil")

\* C17: when Next returns a row, dest holds the values of the active result
\* set's columns and every LOB value among them is bound to the session the
\* cursor was made for, for a row of the first page as of a fetched page
C17_LobsBoundToSession ==
    [][NextReturnsRow =>
         /\ DOMAIN dest' = 1..MaxCols
         /\ \A j \in DOMAIN dest' :
              /\ dest'[j].lob = fieldIsLob(rsID(rrObj'), j)
              /\ dest'[j].lob => dest'[j].s = qrsSession]_vars
C17_Witness ==
    /\ ret = Ret("Next", "nil")
    /\ idx = 1
    /\ srv.np = 2 /\ nFetch = 1 /\ nFail = 0
    /\ \E j \in DOMAIN dest : dest[j].lob /\ dest[j].s = qrsSession

\* the column list of the result set at index i of r.rrs
ColumnsAt(i) == [j \in 1..MaxCols |-> fieldName(rrs[i + 1], j)]

\* C18: Columns returns the column list of the result set at the current
\* index, issues no request and leaves position, index, recorded error, result
\* sets and page as they were
C18_ColumnsOfActiveResultSet ==
    [][QrsColumns =>
         /\ ret' = RetColumns(ColumnsAt(idx))
         /\ UNCHANGED <<rrs, rr, idx, pos, lastErr, rrObj, srv, isBad>>
         /\ UNCHANGED <<nFetch, nFail, closeReqs, out, dest>>]_vars
C18_Witness ==
    /\ idx = 1
    /\ ret = RetColumns(ColumnsAt(1))
    /\ ColumnsAt(1) # ColumnsAt(0)
    /\ pos = 2 /\ lastErr # "nil"

\* the codes encTc folds into tcNclob
EncAliases == {tcText, tcBintext, tcLocator}

\* C19: encTc gives tcNclob for tcText, tcBintext and tcLocator and the code
\* itself for every other byte, and encTc of what encTc gave is that same code
C19_EncTcIdempotent ==
    /\ tcCall.op = "encTc" =>
         tcCall.val = (IF tcIn \in EncAliases THEN tcNclob ELSE tcIn)
    /\ tcCall.op = "encTc.encTc" => tcCall.val = tcCall.arg
C19_Witness ==
    /\ tcIn = tcLocator
    /\ tcCall = [op |-> "encTc.encTc", arg |-> tcNclob, val |-> tcNclob]

\* C20: for every code tcFieldTypeMap holds, isCharBased is true exactly when
\* fieldType is cesu8Type or lobCESU8Type
C20_CharBasedIffCesu8 ==
    (tcCall.op = "isCharBased" /\ tcIn \in DOMAIN tcFieldTypeMap) =>
        (tcCall.val <=> tcCall.ft \in {"cesu8Type", "lobCESU8Type"})

\* C21: after a successful NextResultSet the Next calls return the rows of the
\* new result set from its first row on, in order (rows 1, 2, 3, ...), and
\* io.EOF only when all of them were returned, however many rows of the
\* result set before were read
C21_AdvanceStartsAtFirstRow ==
    (idx >= 1 /\ nFail = 0 /\ srv.nonEmpty) =>
        /\ out = RowSeq(1, Len(out))
        /\ (ret = Ret("Next", "EOF") => lastPacket(rrObj) /\ Len(out) = srv.nr)

\* C22: once Close was called on the cursor, no Next issues a fetchNext
\* request or returns a row
C22_ClosedStaysClosed ==
    [][("Close" \in past /\ QrsNext) =>
         /\ nFetch' = nFetch
         /\ ret' # Ret("Next", "nil")
         /\ out' = out]_vars

\* C23: on a session that is bad Next returns driver.ErrBadConn, issues no
\* fetchNext request, copies no row and leaves position, index, recorded
\* error and page as they were
C23_BadSessionNext ==
    [][(isBad /\ QrsNext) =>
         /\ ret' = Ret("Next", "ErrBadConn")
         /\ nFetch' = nFetch
         /\ out' = out /\ dest' = dest
         /\ UNCHANGED <<pos, idx, lastErr, rrs, rr, rrObj, srv>>]_vars
C23_Witness ==
    /\ isBad
    /\ ret = Ret("Next", "ErrBadConn")
    /\ pos < numRow(rrObj)
    /\ out # <<>>

\* C24: a NextResultSet that succeeds clears the recorded error, one that
\* returns io.EOF leaves it; the Close after a successful advance does not
\* return a fetch error: it releases the handle of the new result set when
\* that is not closed, and only returns nil when it is
C24_AdvanceClearsError ==
    [][/\ QrsNextResultSet =>
            lastErr' = (IF idx + 1 < Len(rrs) THEN "nil" ELSE lastErr)
       /\ (ret = Ret("NextResultSet", "nil") /\ QrsClose) =>
            /\ ret'.err \notin Errors
            /\ IF closed(rrObj)
               THEN closeReqs' = closeReqs /\ ret' = Ret("Close", "nil")
               ELSE closeReqs' = Append(closeReqs, rrs[idx + 1])]_vars
\* a fetch failed on the first result set, the advance cleared the error and
\* Close released the handle of the second
C24_Witness ==
    /\ idx = 1
    /\ "errCleared" \in past
    /\ lastErr = "nil"
    /\ ret = Ret("Close", "nil")
    /\ closeReqs = <<rrs[2]>>

\* C26: every type code isLob accepts is in dataTypeMap and dataType gives DtLob
\* for it, without a panic
C26_LobCodesClassifyAsLob ==
    (tcCall.op = "isLob" /\ tcCall.val) =>
        /\ tcIn \in DOMAIN dataTypeMap
        /\ tcCall.dt = [panic |-> FALSE, dt |-> "DtLob"]

\* C27: whenever there is a cursor its list of result sets is not empty, its
\* index is at least 0 and below their number, and r.rr and the page it
\* holds are those of the result set at the index; the constructor panics
\* exactly when it is given no result set, and no cursor comes of it
C27_IndexWithinResultSets ==
    /\ hasCursor =>
         /\ Len(rrs) >= 1
         /\ idx >= 0 /\ idx < Len(rrs)
         /\ rr = rrs[idx + 1]
         /\ rsID(rrObj) = rr
    /\ ~hasCursor => (rrs = <<>> /\ past = {} /\ out = <<>>)
C27_Witness ==
    /\ hasCursor
    /\ Len(rrs) = 2
    /\ idx = 1
    /\ rr = rrs[2] /\ rsID(rrObj) = rrs[2]
    /\ lastErr # "nil"
    /\ "Close" \in past

\* C25: under the scheduling of the Go runtime every set, Get and cleanup
\* call that was made returns, whatever the other goroutines call meanwhile;
\* and no lock is left held when no call is in progress
C25_CacheCallsReturn ==
    /\ \A t \in Sessions : []<>(pc[t] = "idle")
    /\ []((\A t \in Sessions : pc[t] = "idle") => (writer = None /\ readers = {}))
\* a Get waits in RLock behind one set that holds the lock and another that waits
C25_Witness ==
    /\ pc["s1"] = "get_rlock"
    /\ pc["s2"] = "set_write" /\ writer = "s2"
    /\ pc["s3"] = "set_lock"

====
